---- MODULE Spec2Model ----
(***************************************************************************)
(* Email worker (src/worker.js, the retries/maxRetries variant, lines      *)
(* 400-841): the job, ticket and credential collections of the shared      *)
(* store, and the poll cycles of the worker instances that run against it. *)
(* A poll cycle is one invocation of pollJobs; every await of pollJobs and *)
(* processEmailJob is a step (a call of sendEmail is one step), so cycles  *)
(* of one instance (setInterval ticks, the initial poll, POST /trigger)    *)
(* and of several instances interleave at those points.  Every store       *)
(* operation and every SMTP operation may fail.  Timestamps (created_at    *)
(* apart) are left out.                                                    *)
(***************************************************************************)
EXTENDS Integers, Sequences, FiniteSets, TLC

\* ---------------------------------------------------------------- bounds
NumJobs == 2
NumCycles == 2
MaxLimit == 1
NumPollJobs == 6

\* ------------------------------------------------------- program constants
RETRY_CEILING == 3
BATCH_LIMIT == 5
DEFAULT_MAX_RETRIES == 3
PORT_STARTTLS == 587
PORT_SSL == 465

Cycles == 1..NumCycles
Instances == Cycles
TicketIds == {1}
CredIds == {1, 2}

MsgIds == {7}
NoId == 0
DanglingId == 2
NoError == "null"
NoResult == [success |-> FALSE, messageId |-> 0]

\* the message of the Error a rejected store operation throws
StoreError == "store error"

\* jobSchema
JobStatus == {"queued", "pending", "processing", "completed", "error", "failed"}

\* daily_limit of emailCredentialSchema: the field is absent, null or a number
NoLimitField == [kind |-> "missing", val |-> 0]
NullLimit == [kind |-> "null", val |-> 0]
Limit(n) == [kind |-> "num", val |-> n]

VARIABLES
    jobs,        \* Job collection: id -> document
    tickets,     \* Ticket collection: id -> status
    details,     \* Ticket collection: id -> ticket_details.email, event.name
    creds,       \* EmailCredential collection: id -> document
    width,       \* the number of poll cycles that may overlap
    booted,      \* instance -> startWorker has run
    pc,          \* cycle -> position in pollJobs / processEmailJob
    inst,        \* cycle (slot of the event loop) -> its worker instance
    batch,       \* cycle -> the documents of `jobs` not yet iterated
    job,         \* cycle -> the in-memory job document of processEmailJob
    ticket,      \* cycle -> id of the in-memory ticket document (NoId: none)
    credential,  \* cycle -> in-memory credential document
    caught,      \* cycle -> message of the error the catch block received
    emailInfo,   \* cycle -> messageId returned by sendEmail (0: none)
    sends,       \* cycle -> the sendEmail calls of this invocation: port, outcome
    mail,        \* cycle -> the emailOptions of this invocation
    http         \* the POST /trigger request under observation: the cycle it
                 \* awaits (0: none) and the response it got

vars == <<jobs, tickets, details, creds, width, booted, pc, inst, batch, job,
          ticket, credential, caught, emailInfo, sends, mail, http>>

JobIds == DOMAIN jobs

store == <<jobs, tickets, details, creds>>
locals == <<job, ticket, credential, caught, emailInfo, sends, mail>>
sched == <<width, booted, inst, http>>

\* no POST /trigger request is under observation, none was answered
NoRequest == [slot |-> 0, res |-> "none"]

\* ------------------------------------------------------------ documents
\* the value of a field the document does not have, and of event.name and
\* ticket_details.email when event or ticket_details is missing
Undefined == "undefined"
Null == "null"

\* no emailOptions have been built
NoMail == [to |-> Undefined, subject |-> Undefined, text |-> Undefined,
           html |-> Undefined]

\* a Mongoose document: the fields read from the store, and the paths
\* assigned since the last successful save
EmptyJob ==
    [job_type |-> "send_email", status |-> "queued", retries |-> 0,
     maxRetries |-> 0, error |-> NoError, result |-> NoResult,
     created_at |-> 0, ticketId |-> NoId, attachment |-> FALSE,
     recipientEmail |-> Undefined, subject |-> Undefined,
     textBody |-> Undefined, htmlBody |-> Undefined]
NoDoc == [id |-> NoId, doc |-> EmptyJob, dirty |-> {}]
NoCred == [id |-> NoId, smtp_port |-> 0, daily_usage |-> 0]

Hydrate(id) == [id |-> id, doc |-> jobs[id], dirty |-> {}]

\* doc.path = value
Assign(m, path, value) ==
    [m EXCEPT !.doc[path] = value,
              !.dirty = IF m.doc[path] = value THEN @ ELSE @ \cup {path}]

\* the document of the store after doc.save(): $set of the modified paths
Saved(m) ==
    [f \in DOMAIN jobs[m.id] |->
        IF f \in m.dirty THEN m.doc[f] ELSE jobs[m.id][f]]

Clean(m) == [m EXCEPT !.dirty = {}]

\* ------------------------------------------------------------- pollJobs
\* seeded fault: the filter does not test the status
MatchesAnyStatus(d) ==
    /\ d.job_type = "send_email"
    /\ d.retries < RETRY_CEILING

\* seeded fault: the filter does not test job_type
MatchesAnyType(d) ==
    /\ d.status = "pending"
    /\ d.retries < RETRY_CEILING

\* seeded fault: the query also returns the jobs left in processing
MatchesStuck(d) ==
    /\ d.job_type = "send_email"
    /\ d.status \in {"pending", "processing"}
    /\ d.retries < RETRY_CEILING

\* the filter of Job.find
Matches(d) ==
    /\ d.job_type = "send_email"
    /\ d.status = "pending"
    /\ d.retries < RETRY_CEILING

\* seeded fault: the sort is descending, .sort({ created_at: -1 })
BeforeNewestFirst(a, b) ==
    \/ jobs[a].created_at > jobs[b].created_at
    \/ jobs[a].created_at = jobs[b].created_at /\ a < b

\* .sort({ created_at: 1 }); documents with equal keys keep the store's order
Before(a, b) ==
    \/ jobs[a].created_at < jobs[b].created_at
    \/ jobs[a].created_at = jobs[b].created_at /\ a < b

RECURSIVE Sorted(_)
Sorted(S) ==
    IF S = {} THEN <<>>
    ELSE LET first == CHOOSE a \in S : \A b \in S \ {a} : Before(a, b)
         IN  <<first>> \o Sorted(S \ {first})

\* .limit(5)
Take(s, n) == IF Len(s) <= n THEN s ELSE SubSeq(s, 1, n)

\* Job.find(...).sort(...).limit(5): the ids, in the order of the result
Find == Take(Sorted({j \in JobIds : Matches(jobs[j])}), BATCH_LIMIT)

Idle(i, c) == c <= width /\ inst[c] = i /\ pc[c] = "idle"

\* a cycle begins: pollJobs is called
Begin(c) ==
    /\ pc' = [pc EXCEPT ![c] = "find"]
    /\ UNCHANGED <<width, inst>>

\* startWorker: connect, listen, setInterval, then the initial poll
StartWorker(i, c) ==
    /\ ~booted[i]
    /\ Idle(i, c)
    /\ booted' = [booted EXCEPT ![i] = TRUE]
    /\ Begin(c)
    /\ UNCHANGED <<store, batch, locals, http>>

\* a tick of setInterval(pollJobs, POLL_INTERVAL): it does not wait for the
\* cycle of an earlier tick
IntervalTick(i, c) ==
    /\ booted[i]
    /\ Idle(i, c)
    /\ Begin(c)
    /\ UNCHANGED <<store, booted, batch, locals, http>>

\* POST /trigger
Trigger(i, c) ==
    /\ booted[i]
    /\ Idle(i, c)
    /\ Begin(c)
    /\ UNCHANGED <<store, booted, batch, locals, http>>

\* POST /trigger of the request under observation: the handler awaits
\* pollJobs()
TriggerWatched(i, c) ==
    /\ booted[i]
    /\ Idle(i, c)
    /\ http = NoRequest
    /\ http' = [slot |-> c, res |-> "none"]
    /\ Begin(c)
    /\ UNCHANGED <<store, booted, batch, locals>>

\* the handler of POST /trigger: await pollJobs() has resolved, so the
\* request that awaited cycle c is answered { success: true }
Respond(c) ==
    http' = IF http.slot = c THEN [slot |-> 0, res |-> "success"] ELSE http

\* pollJobs is over (the loop ended, or its catch block logged an error)
Finish(c) ==
    /\ pc' = [pc EXCEPT ![c] = "idle"]
    /\ batch' = [batch EXCEPT ![c] = <<>>]
    /\ Respond(c)
    /\ UNCHANGED <<width, booted, inst>>

\* seeded fault: pollJobs has no catch block, a rejected query ends the process
FindJobsUncaught(c) ==
    /\ pc[c] = "find"
    /\ \/ /\ batch' = [batch EXCEPT ![c] = [n \in 1..Len(Find) |-> Hydrate(Find[n])]]
          /\ pc' = [pc EXCEPT ![c] = "loop"]
          /\ UNCHANGED sched
       \/ /\ pc' = [pc EXCEPT ![c] = "idle"]
          /\ batch' = [batch EXCEPT ![c] = <<>>]
          /\ booted' = [booted EXCEPT ![inst[c]] = FALSE]
          /\ UNCHANGED <<width, inst, http>>
    /\ UNCHANGED <<store, locals>>

\* const jobs = await Job.find(...); a rejected query ends the cycle in the
\* catch block of pollJobs
FindJobs(c) ==
    /\ pc[c] = "find"
    /\ \/ /\ batch' = [batch EXCEPT ![c] = [n \in 1..Len(Find) |-> Hydrate(Find[n])]]
          /\ pc' = [pc EXCEPT ![c] = "loop"]
          /\ UNCHANGED sched
       \/ Finish(c)
    /\ UNCHANGED <<store, locals>>

\* seeded fault: the claim does not increment retries
NextJobNoIncrement(c) ==
    /\ pc[c] = "loop"
    /\ batch[c] # <<>>
    /\ job' = [job EXCEPT ![c] = Assign(Head(batch[c]), "status", "processing")]
    /\ batch' = [batch EXCEPT ![c] = Tail(@)]
    /\ ticket' = [ticket EXCEPT ![c] = NoId]
    /\ credential' = [credential EXCEPT ![c] = NoCred]
    /\ caught' = [caught EXCEPT ![c] = NoError]
    /\ emailInfo' = [emailInfo EXCEPT ![c] = 0]
    /\ sends' = [sends EXCEPT ![c] = <<>>]
    /\ mail' = [mail EXCEPT ![c] = NoMail]
    /\ pc' = [pc EXCEPT ![c] = "claim"]
    /\ UNCHANGED <<store, sched>>

\* for (const job of jobs): the next iteration calls processEmailJob, which
\* assigns status and retries before its first await
NextJob(c) ==
    /\ pc[c] = "loop"
    /\ batch[c] # <<>>
    /\ LET m == Head(batch[c])
       IN  job' = [job EXCEPT ![c] =
                Assign(Assign(m, "status", "processing"),
                       "retries", m.doc.retries + 1)]
    /\ batch' = [batch EXCEPT ![c] = Tail(@)]
    /\ ticket' = [ticket EXCEPT ![c] = NoId]
    /\ credential' = [credential EXCEPT ![c] = NoCred]
    /\ caught' = [caught EXCEPT ![c] = NoError]
    /\ emailInfo' = [emailInfo EXCEPT ![c] = 0]
    /\ sends' = [sends EXCEPT ![c] = <<>>]
    /\ mail' = [mail EXCEPT ![c] = NoMail]
    /\ pc' = [pc EXCEPT ![c] = "claim"]
    /\ UNCHANGED <<store, sched>>

EndCycle(c) ==
    /\ pc[c] = "loop"
    /\ batch[c] = <<>>
    /\ Finish(c)
    /\ UNCHANGED <<store, locals>>

\* ------------------------------------------------------ processEmailJob
\* the locals of processEmailJob go out of scope
Forget(c) ==
    /\ job' = [job EXCEPT ![c] = NoDoc]
    /\ ticket' = [ticket EXCEPT ![c] = NoId]
    /\ credential' = [credential EXCEPT ![c] = NoCred]
    /\ caught' = [caught EXCEPT ![c] = NoError]
    /\ emailInfo' = [emailInfo EXCEPT ![c] = 0]
    /\ sends' = [sends EXCEPT ![c] = <<>>]
    /\ mail' = [mail EXCEPT ![c] = NoMail]

\* return true / return false: back in the loop of pollJobs, which sleeps
\* (setTimeout, 1000 ms) before its next iteration
Return(c) ==
    /\ pc' = [pc EXCEPT ![c] = "loop"]
    /\ Forget(c)
    /\ UNCHANGED <<sched, batch>>

\* an error is thrown inside the try block
Throw(c, message) ==
    /\ caught' = [caught EXCEPT ![c] = message]
    /\ pc' = [pc EXCEPT ![c] = "catch"]

\* await job.save() of the claim (status, retries)
Claim(c) ==
    /\ pc[c] = "claim"
    /\ \/ /\ jobs' = [jobs EXCEPT ![job[c].id] = Saved(job[c])]
          /\ job' = [job EXCEPT ![c] = Clean(@)]
          /\ pc' = [pc EXCEPT ![c] = "ticket"]
          /\ UNCHANGED caught
       \/ /\ Throw(c, StoreError)
          /\ UNCHANGED <<jobs, job>>
    /\ UNCHANGED <<tickets, details, creds, sched, batch, ticket, credential,
                   emailInfo, sends, mail>>

\* job.data.ticketId, then await Ticket.findById(ticketId)
ResolveTicket(c) ==
    /\ pc[c] = "ticket"
    /\ LET ticketId == job[c].doc.ticketId
       IN  IF ticketId = NoId
           THEN Throw(c, "Ticket ID not found in job data") /\ UNCHANGED ticket
           ELSE \/ /\ ticketId \in TicketIds
                   /\ ticket' = [ticket EXCEPT ![c] = ticketId]
                   /\ pc' = [pc EXCEPT ![c] = "credential"]
                   /\ UNCHANGED caught
                \/ /\ ticketId \notin TicketIds
                   /\ Throw(c, "Ticket not found")
                   /\ UNCHANGED ticket
                \/ /\ Throw(c, StoreError)
                   /\ UNCHANGED ticket
    /\ UNCHANGED <<store, sched, batch, job, credential, emailInfo, sends, mail>>

\* seeded fault: the quota is compared with $lte instead of $lt
EligibleAtLimit(cr) ==
    /\ cr.is_active
    /\ \/ cr.daily_limit.kind = "missing"
       \/ cr.daily_limit.kind = "null"
       \/ cr.daily_limit.kind = "num" /\ cr.daily_usage <= cr.daily_limit.val

\* the filter of EmailCredential.findOne
Eligible(cr) ==
    /\ cr.is_active
    /\ \/ cr.daily_limit.kind = "missing"
       \/ cr.daily_limit.kind = "null"
       \/ cr.daily_limit.kind = "num" /\ cr.daily_usage < cr.daily_limit.val

\* EmailCredential.findOne(...): the first match in the store's order
FindOne ==
    IF \E id \in CredIds : Eligible(creds[id])
    THEN CHOOSE id \in CredIds :
            /\ Eligible(creds[id])
            /\ \A other \in CredIds : Eligible(creds[other]) => id <= other
    ELSE NoId

\* a || b of JavaScript on strings: a unless it is undefined, null or ""
OrElse(a, b) == IF a \in {Undefined, Null, ""} THEN b ELSE a

\* seeded fault: the ticket's address is taken before the job's
EmailOptionsTicketFirst(data, t) ==
    [to |-> OrElse(t.email, data.recipientEmail),
     subject |-> OrElse(data.subject,
                        "Your Ticket for " \o OrElse(t.event, "Event")),
     text |-> OrElse(data.textBody, "Your ticket is attached."),
     html |-> OrElse(data.htmlBody, Null)]

\* const emailOptions = {...} from job.data and the ticket (from and the
\* attachment are left out)
EmailOptions(data, t) ==
    [to |-> OrElse(data.recipientEmail, t.email),
     subject |-> OrElse(data.subject,
                        "Your Ticket for " \o OrElse(t.event, "Event")),
     text |-> OrElse(data.textBody, "Your ticket is attached."),
     html |-> OrElse(data.htmlBody, Null)]

\* await EmailCredential.findOne(...), then the attachment check, then
\* emailOptions
SelectCredential(c) ==
    /\ pc[c] = "credential"
    /\ \/ /\ FindOne = NoId
          /\ Throw(c, "No available email credentials")
          /\ UNCHANGED <<credential, mail>>
       \/ /\ FindOne # NoId
          /\ credential' = [credential EXCEPT ![c] =
                [id |-> FindOne, smtp_port |-> creds[FindOne].smtp_port,
                 daily_usage |-> creds[FindOne].daily_usage]]
          /\ IF job[c].doc.attachment
             THEN /\ mail' = [mail EXCEPT ![c] =
                        EmailOptions(job[c].doc, details[ticket[c]])]
                  /\ pc' = [pc EXCEPT ![c] = "send"]
                  /\ UNCHANGED caught
             ELSE /\ Throw(c, "Attachment data missing in job")
                  /\ UNCHANGED mail
       \/ /\ Throw(c, StoreError)
          /\ UNCHANGED <<credential, mail>>
    /\ UNCHANGED <<store, sched, batch, job, ticket, emailInfo, sends>>

\* --------------------------------------------------------------- sendEmail
SmtpErrors == {"ETIMEDOUT", "EAUTH"}

\* const port = usePort465 ? 465 : credential.smtp_port
SmtpPort(cr, usePort465) == IF usePort465 THEN PORT_SSL ELSE cr.smtp_port

\* sendEmail(credential, emailOptions, usePort465) ran: verify and sendMail
\* resolved ("ok") or one of them rejected with error.code = outcome
Called(c, usePort465, outcome) ==
    sends' = [sends EXCEPT ![c] =
        Append(@, [port |-> SmtpPort(credential[c], usePort465),
                   outcome |-> outcome])]

\* seeded fault: the error code is not tested
FallbackAnyError(code, cr) == cr.smtp_port = PORT_STARTTLS

\* the condition of the inner catch block of processEmailJob
Fallback(code, cr) == code = "ETIMEDOUT" /\ cr.smtp_port = PORT_STARTTLS

\* seeded fault: the inner catch block does not rethrow, so a failed
\* delivery goes on as if it had succeeded
SendPrimarySwallowsError(c) ==
    /\ pc[c] = "send"
    /\ \/ \E m \in MsgIds :
             /\ Called(c, FALSE, "ok")
             /\ emailInfo' = [emailInfo EXCEPT ![c] = m]
             /\ pc' = [pc EXCEPT ![c] = "usage"]
       \/ \E code \in SmtpErrors :
             /\ Called(c, FALSE, code)
             /\ pc' = [pc EXCEPT ![c] = IF Fallback(code, credential[c])
                                        THEN "fallback" ELSE "usage"]
             /\ UNCHANGED emailInfo
    /\ UNCHANGED <<store, sched, batch, job, ticket, credential, caught, mail>>

\* emailInfo = await sendEmail(credential, emailOptions, false)
SendPrimary(c) ==
    /\ pc[c] = "send"
    /\ \/ \E m \in MsgIds :
             /\ Called(c, FALSE, "ok")
             /\ emailInfo' = [emailInfo EXCEPT ![c] = m]
             /\ pc' = [pc EXCEPT ![c] = "usage"]
             /\ UNCHANGED caught
       \/ \E code \in SmtpErrors :
             /\ Called(c, FALSE, code)
             /\ IF Fallback(code, credential[c])
                THEN pc' = [pc EXCEPT ![c] = "fallback"] /\ UNCHANGED caught
                ELSE Throw(c, code)
             /\ UNCHANGED emailInfo
    /\ UNCHANGED <<store, sched, batch, job, ticket, credential, mail>>

\* emailInfo = await sendEmail(credential, emailOptions, true)
SendFallback(c) ==
    /\ pc[c] = "fallback"
    /\ \/ \E m \in MsgIds :
             /\ Called(c, TRUE, "ok")
             /\ emailInfo' = [emailInfo EXCEPT ![c] = m]
             /\ pc' = [pc EXCEPT ![c] = "usage"]
             /\ UNCHANGED caught
       \/ \E code \in SmtpErrors :
             /\ Called(c, TRUE, code)
             /\ Throw(c, code)
             /\ UNCHANGED emailInfo
    /\ UNCHANGED <<store, sched, batch, job, ticket, credential, mail>>

\* ------------------------------------------------ the commit of a success
\* seeded fault: the usage is incremented once per call of sendEmail
IncUsagePerAttempt(c) ==
    /\ pc[c] = "usage"
    /\ creds' = [creds EXCEPT ![credential[c].id].daily_usage = @ + Len(sends[c])]
    /\ job' = [job EXCEPT ![c] =
          Assign(Assign(@, "status", "completed"), "result",
                 [success |-> TRUE, messageId |-> emailInfo[c]])]
    /\ pc' = [pc EXCEPT ![c] = "complete"]
    /\ UNCHANGED <<jobs, tickets, details, sched, batch, ticket, credential,
                   caught, emailInfo, sends, mail>>

\* seeded fault: the usage is written from the document read at selection
\* (credential.daily_usage + 1, then save) instead of $inc
IncUsageFromSnapshot(c) ==
    /\ pc[c] = "usage"
    /\ creds' = [creds EXCEPT ![credential[c].id].daily_usage =
                        credential[c].daily_usage + 1]
    /\ job' = [job EXCEPT ![c] =
          Assign(Assign(@, "status", "completed"), "result",
                 [success |-> TRUE, messageId |-> emailInfo[c]])]
    /\ pc' = [pc EXCEPT ![c] = "complete"]
    /\ UNCHANGED <<jobs, tickets, details, sched, batch, ticket, credential,
                   caught, emailInfo, sends, mail>>

\* await EmailCredential.findByIdAndUpdate(credential._id, {$inc: ...})
IncUsage(c) ==
    /\ pc[c] = "usage"
    /\ \/ /\ creds' = [creds EXCEPT ![credential[c].id].daily_usage = @ + 1]
          /\ job' = [job EXCEPT ![c] =
                Assign(Assign(@, "status", "completed"), "result",
                       [success |-> TRUE, messageId |-> emailInfo[c]])]
          /\ pc' = [pc EXCEPT ![c] = "complete"]
          /\ UNCHANGED caught
       \/ /\ Throw(c, StoreError)
          /\ UNCHANGED <<creds, job>>
    /\ UNCHANGED <<jobs, tickets, details, sched, batch, ticket, credential,
                   emailInfo, sends, mail>>

\* await job.save() of status completed and the result
Complete(c) ==
    /\ pc[c] = "complete"
    /\ \/ /\ jobs' = [jobs EXCEPT ![job[c].id] = Saved(job[c])]
          /\ job' = [job EXCEPT ![c] = Clean(@)]
          /\ pc' = [pc EXCEPT ![c] = "sent"]
          /\ UNCHANGED caught
       \/ /\ Throw(c, StoreError)
          /\ UNCHANGED <<jobs, job>>
    /\ UNCHANGED <<tickets, details, creds, sched, batch, ticket, credential,
                   emailInfo, sends, mail>>

\* seeded fault: the ticket is saved with its old status
MarkSentKeepsStatus(c) ==
    /\ pc[c] = "sent"
    /\ Return(c)
    /\ UNCHANGED store

\* ticket.status = "sent"; await ticket.save(); return true
MarkSent(c) ==
    /\ pc[c] = "sent"
    /\ \/ /\ tickets' = [tickets EXCEPT ![ticket[c]] = "sent"]
          /\ Return(c)
       \/ /\ Throw(c, StoreError)
          /\ UNCHANGED <<tickets, sched, batch, job, ticket, credential,
                         emailInfo, sends, mail>>
    /\ UNCHANGED <<jobs, details, creds>>

\* ------------------------------------------------ the commit of a failure
\* seeded fault: the ceiling is compared with > instead of >=
FailureStatusOffByOne(d) ==
    IF d.retries > d.maxRetries THEN "failed" ELSE "pending"

\* the status the catch block assigns
FailureStatus(d) ==
    IF d.retries >= d.maxRetries THEN "failed" ELSE "pending"

\* seeded fault: the catch block also counts the attempt against the credential
CommitFailureCountsUsage(c) ==
    /\ pc[c] = "catch"
    /\ LET m == Assign(Assign(job[c], "error", caught[c]),
                       "status", FailureStatus(job[c].doc))
       IN  /\ jobs' = [jobs EXCEPT ![m.id] = Saved(m)]
           /\ Return(c)
    /\ creds' = [id \in CredIds |->
            IF id = credential[c].id
            THEN [creds[id] EXCEPT !.daily_usage = @ + 1]
            ELSE creds[id]]
    /\ UNCHANGED <<tickets, details>>

\* seeded fault: the catch block does not assign job.error
CommitFailureKeepsError(c) ==
    /\ pc[c] = "catch"
    /\ LET m == Assign(job[c], "status", FailureStatus(job[c].doc))
       IN  /\ jobs' = [jobs EXCEPT ![m.id] = Saved(m)]
           /\ Return(c)
    /\ UNCHANGED <<tickets, details, creds>>

\* seeded fault: an error thrown before the delivery fails the job at once
CommitFailureFailsFast(c) ==
    /\ pc[c] = "catch"
    /\ LET m == Assign(Assign(job[c], "error", caught[c]), "status",
                       IF sends[c] = <<>> THEN "failed"
                       ELSE FailureStatus(job[c].doc))
       IN  /\ jobs' = [jobs EXCEPT ![m.id] = Saved(m)]
           /\ Return(c)
    /\ UNCHANGED <<tickets, details, creds>>

\* the catch block of processEmailJob: job.error, job.status, await
\* job.save(), return false; a rejected save is thrown to pollJobs, whose
\* catch block ends the cycle
CommitFailure(c) ==
    /\ pc[c] = "catch"
    /\ LET m == Assign(Assign(job[c], "error", caught[c]),
                       "status", FailureStatus(job[c].doc))
       IN  \/ /\ jobs' = [jobs EXCEPT ![m.id] = Saved(m)]
              /\ Return(c)
           \/ /\ UNCHANGED jobs
              /\ Finish(c)
              /\ Forget(c)
    /\ UNCHANGED <<tickets, details, creds>>

\* ---------------------------------------------------------------- shutdown
\* process.on("SIGTERM") / process.on("SIGINT"): the handler logs and awaits
\* mongoose.connection.close(); it runs beside the poll cycles of its
\* instance, in the slot after theirs
Signal(i, c) ==
    /\ booted[i]
    /\ c = width + 1
    /\ inst[c] = i
    /\ pc[c] = "idle"
    /\ pc' = [pc EXCEPT ![c] = "closing"]
    /\ UNCHANGED <<store, sched, batch, locals>>

\* process.exit(0): the handler and every poll cycle of the instance end
\* where they are, and a request that awaits one of them gets no response
Exit(c) ==
    /\ pc[c] = "closing"
    /\ LET mine == {d \in Cycles : inst[d] = inst[c]}
       IN  /\ pc' = [d \in Cycles |-> IF d \in mine THEN "idle" ELSE pc[d]]
           /\ batch' = [d \in Cycles |-> IF d \in mine THEN <<>> ELSE batch[d]]
           /\ job' = [d \in Cycles |-> IF d \in mine THEN NoDoc ELSE job[d]]
           /\ ticket' = [d \in Cycles |-> IF d \in mine THEN NoId ELSE ticket[d]]
           /\ credential' =
                [d \in Cycles |-> IF d \in mine THEN NoCred ELSE credential[d]]
           /\ caught' = [d \in Cycles |-> IF d \in mine THEN NoError ELSE caught[d]]
           /\ emailInfo' = [d \in Cycles |-> IF d \in mine THEN 0 ELSE emailInfo[d]]
           /\ sends' = [d \in Cycles |-> IF d \in mine THEN <<>> ELSE sends[d]]
           /\ mail' = [d \in Cycles |-> IF d \in mine THEN NoMail ELSE mail[d]]
           /\ http' = IF http.slot \in mine THEN NoRequest ELSE http
    /\ booted' = [booted EXCEPT ![inst[c]] = FALSE]
    /\ UNCHANGED <<store, width, inst>>

\* ---------------------------------------------------------- specification
\* the ticket_details.email and the event.name of the ticket the jobs refer to
TicketDetails == [email |-> "attendee@example.org", event |-> "Gala"]

NewJob(j, maxRetries, ticketId, attachment) ==
    [job_type |-> "send_email", status |-> "pending", retries |-> 0,
     maxRetries |-> maxRetries, error |-> NoError, result |-> NoResult,
     created_at |-> j, ticketId |-> ticketId, attachment |-> attachment,
     recipientEmail |-> Undefined, subject |-> Undefined,
     textBody |-> Undefined, htmlBody |-> Undefined]

\* a job that has failed all attempts but its last and is pending again
LastAttemptJob(j) ==
    [NewJob(j, DEFAULT_MAX_RETRIES, 1, TRUE) EXCEPT
        !.retries = DEFAULT_MAX_RETRIES - 1, !.error = "EAUTH"]

\* the configurations explored: overlapping cycles (all of one instance, or
\* each of its own instance) on one job that is on its last attempt; one
\* cycle on a batch of new jobs; one cycle on one job whose maxRetries and
\* data vary
SoloMaxRetries == {0, 1, 4}
SoloData ==
    {[ticketId |-> NoId, attachment |-> TRUE],
     [ticketId |-> DanglingId, attachment |-> TRUE],
     [ticketId |-> 1, attachment |-> FALSE]}

Init ==
    /\ \/ /\ jobs = [j \in 1..1 |-> LastAttemptJob(j)]
          /\ width = NumCycles
          /\ inst \in {[c \in Cycles |-> 1], [c \in Cycles |-> c]}
       \/ /\ jobs = [j \in 1..NumJobs |-> NewJob(j, DEFAULT_MAX_RETRIES, 1, TRUE)]
          /\ width = 1
          /\ inst = [c \in Cycles |-> 1]
       \/ /\ \E maxRetries \in SoloMaxRetries, data \in SoloData :
                jobs = [j \in 1..1 |->
                    NewJob(j, maxRetries, data.ticketId, data.attachment)]
          /\ width = 1
          /\ inst = [c \in Cycles |-> 1]
    /\ tickets = [t \in TicketIds |-> "created"]
    /\ details = [t \in TicketIds |-> TicketDetails]
    /\ creds = [id \in CredIds |->
            IF id = 1
            THEN [is_active |-> TRUE, daily_limit |-> Limit(MaxLimit),
                  daily_usage |-> 0, smtp_port |-> PORT_STARTTLS]
            ELSE [is_active |-> TRUE, daily_limit |-> Limit(MaxLimit),
                  daily_usage |-> 0, smtp_port |-> PORT_SSL]]
    /\ booted = [i \in Instances |-> FALSE]
    /\ pc = [c \in Cycles |-> "idle"]
    /\ batch = [c \in Cycles |-> <<>>]
    /\ job = [c \in Cycles |-> NoDoc]
    /\ ticket = [c \in Cycles |-> NoId]
    /\ credential = [c \in Cycles |-> NoCred]
    /\ caught = [c \in Cycles |-> NoError]
    /\ emailInfo = [c \in Cycles |-> 0]
    /\ sends = [c \in Cycles |-> <<>>]
    /\ mail = [c \in Cycles |-> NoMail]
    /\ http = NoRequest

Next ==
    \E c \in Cycles :
        \/ \E i \in Instances : StartWorker(i, c)
        \/ \E i \in Instances : IntervalTick(i, c)
        \/ \E i \in Instances : Trigger(i, c)
        \/ FindJobs(c)
        \/ NextJob(c)
        \/ EndCycle(c)
        \/ Claim(c)
        \/ ResolveTicket(c)
        \/ SelectCredential(c)
        \/ SendPrimary(c)
        \/ SendFallback(c)
        \/ IncUsage(c)
        \/ Complete(c)
        \/ MarkSent(c)
        \/ CommitFailure(c)

Spec == Init /\ [][Next]_vars

\* Credential selection on every combination of credential documents: the
\* worker runs one job up to the selection.
CredDocs ==
    [is_active : BOOLEAN,
     daily_limit : {NoLimitField, NullLimit} \cup {Limit(n) : n \in 0..MaxLimit},
     daily_usage : 0..MaxLimit,
     smtp_port : {PORT_STARTTLS}]

InitSelect ==
    /\ jobs = [j \in 1..1 |-> NewJob(j, DEFAULT_MAX_RETRIES, 1, TRUE)]
    /\ width = 1
    /\ inst = [c \in Cycles |-> 1]
    /\ tickets = [t \in TicketIds |-> "created"]
    /\ details = [t \in TicketIds |-> TicketDetails]
    /\ creds \in [CredIds -> CredDocs]
    /\ booted = [i \in Instances |-> FALSE]
    /\ pc = [c \in Cycles |-> "idle"]
    /\ batch = [c \in Cycles |-> <<>>]
    /\ job = [c \in Cycles |-> NoDoc]
    /\ ticket = [c \in Cycles |-> NoId]
    /\ credential = [c \in Cycles |-> NoCred]
    /\ caught = [c \in Cycles |-> NoError]
    /\ emailInfo = [c \in Cycles |-> 0]
    /\ sends = [c \in Cycles |-> <<>>]
    /\ mail = [c \in Cycles |-> NoMail]
    /\ http = NoRequest

NextSelect ==
    \E c \in Cycles :
        \/ \E i \in Instances : StartWorker(i, c)
        \/ FindJobs(c)
        \/ NextJob(c)
        \/ Claim(c)
        \/ ResolveTicket(c)
        \/ SelectCredential(c)

SpecSelect == InitSelect /\ [][NextSelect]_vars

\* The candidate query on every collection of NumPollJobs jobs (more than
\* the batch cap) whose creation times vary and of which up to two are not
\* pending: the worker starts, runs the query of its first cycle and
\* enters the loop.
PollCreated == {1, 2, 3}
PollStatus == {"pending", "completed"}

PollJob(created_at, status) ==
    [NewJob(created_at, DEFAULT_MAX_RETRIES, 1, TRUE) EXCEPT !.status = status]

InitPoll ==
    /\ \E created \in [1..NumPollJobs -> PollCreated],
          status \in [1..NumPollJobs -> PollStatus] :
            /\ Cardinality({j \in 1..NumPollJobs : status[j] # "pending"}) <= 2
            /\ jobs = [j \in 1..NumPollJobs |-> PollJob(created[j], status[j])]
    /\ width = 1
    /\ inst = [c \in Cycles |-> 1]
    /\ tickets = [t \in TicketIds |-> "created"]
    /\ details = [t \in TicketIds |-> TicketDetails]
    /\ creds = [id \in CredIds |->
            [is_active |-> TRUE, daily_limit |-> NoLimitField,
             daily_usage |-> 0, smtp_port |-> PORT_STARTTLS]]
    /\ booted = [i \in Instances |-> FALSE]
    /\ pc = [c \in Cycles |-> "idle"]
    /\ batch = [c \in Cycles |-> <<>>]
    /\ job = [c \in Cycles |-> NoDoc]
    /\ ticket = [c \in Cycles |-> NoId]
    /\ credential = [c \in Cycles |-> NoCred]
    /\ caught = [c \in Cycles |-> NoError]
    /\ emailInfo = [c \in Cycles |-> 0]
    /\ sends = [c \in Cycles |-> <<>>]
    /\ mail = [c \in Cycles |-> NoMail]
    /\ http = NoRequest

NextPoll ==
    \E c \in Cycles :
        \/ \E i \in Instances : StartWorker(i, c)
        \/ FindJobs(c)
        \/ NextJob(c)

SpecPoll == InitPoll /\ [][NextPoll]_vars

\* The service as a whole: one worker instance running one poll cycle at a
\* time, with the request to POST /trigger under observation and the
\* termination signals, after which the instance may be started again. The
\* collection holds a new send_email job beside a job that is not this
\* worker's to take (another job_type, or a status other than pending).
Bystanders ==
    {[NewJob(2, DEFAULT_MAX_RETRIES, 1, TRUE) EXCEPT !.job_type = "generate_ticket"]}
    \cup {[NewJob(2, DEFAULT_MAX_RETRIES, 1, TRUE) EXCEPT !.status = st] :
            st \in JobStatus \ {"pending"}}

InitService ==
    /\ \E b \in Bystanders :
          jobs = [j \in 1..2 |->
              IF j = 1 THEN NewJob(1, DEFAULT_MAX_RETRIES, 1, TRUE) ELSE b]
    /\ width = 1
    /\ inst = [c \in Cycles |-> 1]
    /\ tickets = [t \in TicketIds |-> "created"]
    /\ details = [t \in TicketIds |-> TicketDetails]
    /\ creds = [id \in CredIds |->
            IF id = 1
            THEN [is_active |-> TRUE, daily_limit |-> Limit(MaxLimit),
                  daily_usage |-> 0, smtp_port |-> PORT_STARTTLS]
            ELSE [is_active |-> TRUE, daily_limit |-> Limit(MaxLimit),
                  daily_usage |-> 0, smtp_port |-> PORT_SSL]]
    /\ booted = [i \in Instances |-> FALSE]
    /\ pc = [c \in Cycles |-> "idle"]
    /\ batch = [c \in Cycles |-> <<>>]
    /\ job = [c \in Cycles |-> NoDoc]
    /\ ticket = [c \in Cycles |-> NoId]
    /\ credential = [c \in Cycles |-> NoCred]
    /\ caught = [c \in Cycles |-> NoError]
    /\ emailInfo = [c \in Cycles |-> 0]
    /\ sends = [c \in Cycles |-> <<>>]
    /\ mail = [c \in Cycles |-> NoMail]
    /\ http = NoRequest

NextService ==
    \E c \in Cycles :
        \/ \E i \in Instances : StartWorker(i, c)
        \/ \E i \in Instances : IntervalTick(i, c)
        \/ \E i \in Instances : TriggerWatched(i, c)
        \/ \E i \in Instances : Signal(i, c)
        \/ Exit(c)
        \/ FindJobs(c)
        \/ NextJob(c)
        \/ EndCycle(c)
        \/ Claim(c)
        \/ ResolveTicket(c)
        \/ SelectCredential(c)
        \/ SendPrimary(c)
        \/ SendFallback(c)
        \/ IncUsage(c)
        \/ Complete(c)
        \/ MarkSent(c)
        \/ CommitFailure(c)

SpecService == InitService /\ [][NextService]_vars

\* The lifecycle under the assumptions of liveness: one poll cycle at a
\* time, the store reachable (no store operation is rejected), no process
\* exits, and the interval keeps ticking (setInterval, never cleared); a
\* delivery may still fail.
InitLive == Init /\ width = 1

NextLive ==
    \E c \in Cycles :
        \/ \E i \in Instances : StartWorker(i, c)
        \/ \E i \in Instances : IntervalTick(i, c)
        \/ FindJobs(c) /\ pc'[c] = "loop"
        \/ NextJob(c)
        \/ EndCycle(c)
        \/ Claim(c) /\ pc'[c] = "ticket"
        \/ ResolveTicket(c) /\ caught'[c] # StoreError
        \/ SelectCredential(c) /\ caught'[c] # StoreError
        \/ SendPrimary(c)
        \/ SendFallback(c)
        \/ IncUsage(c) /\ pc'[c] = "complete"
        \/ Complete(c) /\ pc'[c] = "sent"
        \/ MarkSent(c) /\ pc'[c] = "loop"
        \/ CommitFailure(c) /\ pc'[c] = "loop"

SpecLive == InitLive /\ [][NextLive]_vars /\ WF_vars(NextLive)

\* The batch cap under the assumptions of liveness: NumPollJobs new jobs
\* (more than the cap), of which all, or all but one, have no ticketId, so
\* that every attempt on them fails; the delivery of the other may succeed
\* or fail.
InitStarve ==
    /\ \E failing \in SUBSET (1..NumPollJobs) :
          /\ Cardinality(failing) >= NumPollJobs - 1
          /\ jobs = [j \in 1..NumPollJobs |->
              NewJob(j, DEFAULT_MAX_RETRIES,
                     IF j \in failing THEN NoId ELSE 1, TRUE)]
    /\ width = 1
    /\ inst = [c \in Cycles |-> 1]
    /\ tickets = [t \in TicketIds |-> "created"]
    /\ details = [t \in TicketIds |-> TicketDetails]
    /\ creds = [id \in CredIds |->
            [is_active |-> TRUE, daily_limit |-> NoLimitField,
             daily_usage |-> 0, smtp_port |-> PORT_STARTTLS]]
    /\ booted = [i \in Instances |-> FALSE]
    /\ pc = [c \in Cycles |-> "idle"]
    /\ batch = [c \in Cycles |-> <<>>]
    /\ job = [c \in Cycles |-> NoDoc]
    /\ ticket = [c \in Cycles |-> NoId]
    /\ credential = [c \in Cycles |-> NoCred]
    /\ caught = [c \in Cycles |-> NoError]
    /\ emailInfo = [c \in Cycles |-> 0]
    /\ sends = [c \in Cycles |-> <<>>]
    /\ mail = [c \in Cycles |-> NoMail]
    /\ http = NoRequest

SpecStarve == InitStarve /\ [][NextLive]_vars /\ WF_vars(NextLive)

\* Message composition on every combination of job data and ticket: the
\* recipient, subject and bodies of the job are absent, empty or given, the
\* ticket has an address and an event name or lacks them; the worker runs
\* one job up to its delivery.
DataValues(given) == {Undefined, "", given}

ComposeDetails ==
    [email : {Undefined, "attendee@example.org"}, event : {Undefined, "Gala"}]

InitCompose ==
    /\ \E recipientEmail \in DataValues("guest@example.org"),
          subject \in DataValues("Welcome"),
          textBody \in DataValues("See you there."),
          htmlBody \in DataValues("<p>See you there.</p>") :
            jobs = [j \in 1..1 |->
                [NewJob(j, DEFAULT_MAX_RETRIES, 1, TRUE) EXCEPT
                    !.recipientEmail = recipientEmail, !.subject = subject,
                    !.textBody = textBody, !.htmlBody = htmlBody]]
    /\ width = 1
    /\ inst = [c \in Cycles |-> 1]
    /\ tickets = [t \in TicketIds |-> "created"]
    /\ details \in [TicketIds -> ComposeDetails]
    /\ creds = [id \in CredIds |->
            [is_active |-> TRUE, daily_limit |-> NoLimitField,
             daily_usage |-> 0, smtp_port |-> PORT_STARTTLS]]
    /\ booted = [i \in Instances |-> FALSE]
    /\ pc = [c \in Cycles |-> "idle"]
    /\ batch = [c \in Cycles |-> <<>>]
    /\ job = [c \in Cycles |-> NoDoc]
    /\ ticket = [c \in Cycles |-> NoId]
    /\ credential = [c \in Cycles |-> NoCred]
    /\ caught = [c \in Cycles |-> NoError]
    /\ emailInfo = [c \in Cycles |-> 0]
    /\ sends = [c \in Cycles |-> <<>>]
    /\ mail = [c \in Cycles |-> NoMail]
    /\ http = NoRequest

NextCompose ==
    \E c \in Cycles :
        \/ \E i \in Instances : StartWorker(i, c)
        \/ FindJobs(c)
        \/ NextJob(c)
        \/ Claim(c)
        \/ ResolveTicket(c)
        \/ SelectCredential(c)
        \/ SendPrimary(c)
        \/ SendFallback(c)

SpecCompose == InitCompose /\ [][NextCompose]_vars

\* ------------------------------------------------------------------ claims
\* processEmailJob is running in cycle c
InJob(c) ==
    pc[c] \in {"claim", "ticket", "credential", "send", "fallback", "usage",
               "complete", "sent", "catch"}

\* cycle c is between the claim write and the terminal write of its job
InFlight(c) ==
    pc[c] \in {"ticket", "credential", "send", "fallback", "usage", "complete"}

Terminal == {"completed", "failed"}

\* C1: once the stored status of a job is completed or failed, no step
\* changes any field of its document.
C1_TerminalSticky ==
    [][\A j \in JobIds : jobs[j].status \in Terminal => jobs'[j] = jobs[j]]_vars

\* C2: the catch block that ends a failed invocation persists pending when
\* the retries after the claim increment are below maxRetries, and failed
\* only when they are >= maxRetries; when its save is rejected the document
\* is not written at all.
C2_RetryThenFailed ==
    [][\A c \in Cycles :
        /\ pc[c] = "catch" /\ pc'[c] = "loop" =>
              /\ job[c].doc.retries < job[c].doc.maxRetries
                    => jobs'[job[c].id].status = "pending"
              /\ job[c].doc.retries >= job[c].doc.maxRetries
                    => jobs'[job[c].id].status = "failed"
        /\ pc[c] = "catch" /\ pc'[c] = "idle" => jobs' = jobs]_vars

\* the first attempt of one job failed and left it pending below its
\* ceiling, and a job has reached the ceiling and is failed
C2_Witness ==
    /\ \E j \in JobIds :
          /\ jobs[j].status = "pending"
          /\ jobs[j].error # NoError
          /\ jobs[j].retries = 1
          /\ jobs[j].retries < jobs[j].maxRetries
    /\ \E j \in JobIds :
          /\ jobs[j].status = "failed"
          /\ jobs[j].retries >= jobs[j].maxRetries

\* C3: no two instances hold a successful delivery of the same job made
\* from the same pending occurrence (the same attempt number).
C3_NoDuplicateProcessing ==
    \A c, d \in Cycles :
        /\ c # d
        /\ inst[c] # inst[d]
        /\ emailInfo[c] # 0
        /\ emailInfo[d] # 0
        /\ job[c].id = job[d].id
        => job[c].doc.retries # job[d].doc.retries

\* C4: a claim write takes effect only when the stored status is pending.
C4_AtomicConditionalClaim ==
    [][\A c \in Cycles :
        pc[c] = "claim" /\ pc'[c] = "ticket"
            => jobs[job[c].id].status = "pending"]_vars

\* C5: within one worker instance at most one invocation of
\* processEmailJob is between its claim write and its terminal write.
C5_OneInFlightPerInstance ==
    \A c, d \in Cycles :
        c # d /\ inst[c] = inst[d] => ~(InFlight(c) /\ InFlight(d))

\* C6: while a delivery for a job is in progress the store shows the job
\* as processing; the sends of an invocation come after its claim write
\* and before its terminal write.
C6_WriteBeforeWork ==
    \A c \in Cycles :
        pc[c] \in {"send", "fallback"}
            => jobs[job[c].id].status = "processing"

\* what the claim calls a credential with remaining quota
HasQuota(cr) ==
    /\ cr.is_active
    /\ ~(cr.daily_limit.kind = "num" /\ cr.daily_usage >= cr.daily_limit.val)

\* the selection of cycle c has returned (a credential or none)
Selected(c) ==
    \/ pc[c] = "send"
    \/ pc[c] = "catch" /\ caught[c] = "No available email credentials"

\* C7: the selected credential is active and, when it has a limit, below
\* it; a credential is returned exactly when some credential has quota.
C7_SelectionEligible ==
    \A c \in Cycles :
        /\ credential[c].id # NoId => HasQuota(creds[credential[c].id])
        /\ Selected(c) =>
              (credential[c].id # NoId <=> \E id \in CredIds : HasQuota(creds[id]))

\* the first credential is inactive or exhausted and the second, which
\* has no limit, was selected
C7_Witness ==
    \E c \in Cycles :
        /\ pc[c] = "send"
        /\ credential[c].id = 2
        /\ ~HasQuota(creds[1])
        /\ creds[2].daily_limit.kind # "num"

\* the invocation of cycle c ends in this step
Ends(c) == InJob(c) /\ ~InJob(c)'

\* C8: an invocation whose delivery succeeded ends with the job completed
\* with the result of that delivery, the ticket sent and the usage of the
\* selected credential one above the value it was selected with.
C8_SuccessCommitted ==
    [][\A c \in Cycles :
        Ends(c) /\ emailInfo[c] # 0 =>
            /\ jobs'[job[c].id].status = "completed"
            /\ jobs'[job[c].id].result =
                    [success |-> TRUE, messageId |-> emailInfo[c]]
            /\ tickets'[ticket[c]] = "sent"
            /\ creds'[credential[c].id].daily_usage =
                    credential[c].daily_usage + 1]_vars

\* the delivery of the invocation of cycle c has failed
DeliveryFailed(c) ==
    /\ pc[c] = "catch"
    /\ sends[c] # <<>>
    /\ sends[c][Len(sends[c])].outcome # "ok"

\* C9: the step in which a delivery fails and the steps the invocation
\* takes after it change no credential and no ticket, and of the job
\* documents only status and error of the invocation's job.
C9_FailedDeliveryFrame ==
    [][\A c \in Cycles :
        (pc'[c] # pc[c] /\ (DeliveryFailed(c) \/ DeliveryFailed(c)')) =>
            /\ creds' = creds
            /\ tickets' = tickets
            /\ \A j \in JobIds :
                  \A f \in DOMAIN jobs[j] :
                      jobs'[j][f] # jobs[j][f] =>
                          j = job[c].id /\ f \in {"status", "error"}]_vars

\* the delivery of a first attempt failed and the job went back to
\* pending with its message, while no credential was used and the ticket
\* is as created
C9_Witness ==
    /\ \E j \in JobIds :
          /\ jobs[j].status = "pending"
          /\ jobs[j].retries = 1
          /\ jobs[j].error \in SmtpErrors
    /\ \A id \in CredIds : creds[id].daily_usage = 0
    /\ \A t \in TicketIds : tickets[t] = "created"

\* the fallback of cycle c is about to run or has run
FallbackAttempted(c) == pc[c] = "fallback" \/ Len(sends[c]) = 2

\* C10: the fallback on port 465 is attempted exactly when the primary
\* attempt failed with ETIMEDOUT on a credential whose port is 587; an
\* invocation makes at most two attempts, and a failed fallback is the
\* failure of the attempt.
C10_FallbackIff ==
    \A c \in Cycles :
        /\ Len(sends[c]) <= 2
        /\ FallbackAttempted(c) <=>
              /\ Len(sends[c]) >= 1
              /\ sends[c][1].outcome = "ETIMEDOUT"
              /\ credential[c].smtp_port = PORT_STARTTLS
        /\ Len(sends[c]) >= 1 =>
              sends[c][1].port = credential[c].smtp_port
        /\ Len(sends[c]) = 2 =>
              /\ sends[c][2].port = PORT_SSL
              /\ sends[c][2].outcome # "ok" =>
                    pc[c] = "catch" /\ caught[c] = sends[c][2].outcome

\* the primary attempt timed out on port 587 and the fallback failed
C10_Witness ==
    \E c \in Cycles :
        /\ Len(sends[c]) = 2
        /\ sends[c][1] = [port |-> PORT_STARTTLS, outcome |-> "ETIMEDOUT"]
        /\ sends[c][2].outcome # "ok"
        /\ pc[c] = "catch"

\* C11: whatever step of processEmailJob fails, the invocation returns to
\* the loop of pollJobs, which still holds the remaining jobs of the batch.
C11_NoEscape ==
    [][\A c \in Cycles :
        Ends(c) /\ batch[c] # <<>> =>
            pc'[c] = "loop" /\ batch'[c] = batch[c]]_vars

\* the invocation of cycle c has made a delivery attempt for its job
Attempted(c) == sends[c] # <<>>

\* the invocations that made a delivery attempt from the same reading of
\* the job as cycle c (the same job with the same recorded retries)
SameAttempt(c) ==
    {d \in Cycles :
        /\ Attempted(d)
        /\ job[d].id = job[c].id
        /\ job[d].doc.retries = job[c].doc.retries}

\* C12: the attempts recorded for a job when an invocation read it
\* (retries before the claim increment) plus the invocations that have made
\* a delivery attempt from that reading never exceed the job's maxRetries.
C12_BoundedAttempts ==
    \A c \in Cycles :
        Attempted(c) =>
            (job[c].doc.retries - 1) + Cardinality(SameAttempt(c))
                <= job[c].doc.maxRetries

\* C13: every job whose stored status is failed has retries <= maxRetries.
C13_FailedWithinCeiling ==
    \A j \in JobIds :
        jobs[j].status = "failed" => jobs[j].retries <= jobs[j].maxRetries

\* what the specification calls a candidate of a poll cycle
Candidate(d) ==
    /\ d.job_type = "send_email"
    /\ d.status = "pending"
    /\ d.retries < d.maxRetries

Candidates == {j \in JobIds : Candidate(jobs[j])}

BatchIds(b) == {b[n].id : n \in 1..Len(b)}

\* C14: the jobs a candidate query returns are send_email jobs that are
\* pending with retries below their own maxRetries, and when these are no
\* more than the batch cap the query returns all of them.
C14_CandidateSet ==
    [][\A c \in Cycles :
        pc[c] = "find" /\ pc'[c] = "loop" =>
            /\ BatchIds(batch'[c]) \subseteq Candidates
            /\ Cardinality(Candidates) <= BATCH_LIMIT
                  => Candidates \subseteq BatchIds(batch'[c])]_vars

NoneEligible ==
    \A j \in JobIds :
        ~ /\ jobs[j].job_type = "send_email"
          /\ jobs[j].status = "pending"
          /\ jobs[j].retries < 3

\* C16: when no job is eligible, every step of a poll cycle outside
\* processEmailJob (its start, its query, its end) leaves the job, ticket
\* and credential documents as they are, gives the cycle an empty batch and
\* throws nothing into a catch block of processEmailJob.
C16_EmptyPollNoOp ==
    [][\A c \in Cycles :
        (NoneEligible /\ pc'[c] # pc[c] /\ pc[c] \in {"idle", "find", "loop"}
            /\ batch[c] = <<>>) =>
                /\ store' = store
                /\ batch'[c] = <<>>
                /\ pc'[c] \in {"idle", "find", "loop"}]_vars

\* a poll cycle has started and is about to run its query while the only
\* jobs are terminal ones
C16_Witness ==
    /\ NoneEligible
    /\ \E j \in JobIds : jobs[j].status \in Terminal
    /\ \E c \in Cycles : pc[c] = "find"

\* C17: a rejected candidate query ends the cycle at once: no document is
\* modified, the cycle holds no batch, the instance is still running and
\* its next poll cycle can start.
C17_QueryFailureContained ==
    [][\A c \in Cycles :
        pc[c] = "find" /\ pc'[c] = "idle" =>
            /\ store' = store
            /\ batch'[c] = <<>>
            /\ booted' = booted
            /\ booted[inst[c]]
            /\ c <= width]_vars

\* the query of the first cycle was rejected: the worker is running, idle,
\* and the jobs are as their producer left them
C17_Witness ==
    /\ \E c \in Cycles : c <= width /\ booted[inst[c]] /\ pc[c] = "idle"
    /\ \A j \in JobIds :
          /\ jobs[j].status = "pending"
          /\ jobs[j].retries = 0
          /\ jobs[j].error = NoError

\* the invocation of cycle c ends here, no store operation of it having
\* been rejected
EndsUnhindered(c) == Ends(c) /\ caught[c] # StoreError

\* C18 (scenario A): with one cycle at a time, the first attempt of a job
\* with maxRetries 3 whose delivery succeeds ends with the job completed,
\* retries 1, the result holding the message id, the ticket sent and the
\* usage of the selected credential one above its value at selection.
C18_ScenarioA ==
    [][\A c \in Cycles :
        (/\ width = 1
         /\ EndsUnhindered(c)
         /\ emailInfo[c] # 0
         /\ job[c].doc.retries = 1
         /\ job[c].doc.maxRetries = 3) =>
            /\ jobs'[job[c].id].status = "completed"
            /\ jobs'[job[c].id].retries = 1
            /\ jobs'[job[c].id].result =
                    [success |-> TRUE, messageId |-> emailInfo[c]]
            /\ jobs'[job[c].id].error = NoError
            /\ tickets'[ticket[c]] = "sent"
            /\ creds'[credential[c].id].daily_usage =
                    credential[c].daily_usage + 1]_vars

\* the first attempt of a job has succeeded
C18_Witness ==
    /\ width = 1
    /\ \E j \in JobIds :
          /\ jobs[j].status = "completed"
          /\ jobs[j].retries = 1
          /\ jobs[j].maxRetries = 3
          /\ jobs[j].result.success
          /\ tickets[jobs[j].ticketId] = "sent"
    /\ \E id \in CredIds : creds[id].daily_usage = 1

\* C19 (scenario B): with one cycle at a time and maxRetries 3, each claim
\* stores retries one above the stored value; an attempt that fails with
\* the transport error EAUTH leaves the job pending after the first and the
\* second claim and failed after the third, with that message as error and
\* the retries of the claim, and touches no ticket and no credential; a
\* query never returns a failed job.
C19_ScenarioB ==
    [][\A c \in Cycles :
        /\ (width = 1 /\ pc[c] = "claim" /\ pc'[c] = "ticket") =>
              jobs'[job[c].id].retries = jobs[job[c].id].retries + 1
        /\ (/\ width = 1
            /\ pc[c] = "catch" /\ pc'[c] = "loop"
            /\ caught[c] = "EAUTH"
            /\ job[c].doc.maxRetries = 3) =>
              LET before == jobs[job[c].id]
                  after == jobs'[job[c].id]
              IN  /\ after.retries = before.retries
                  /\ after.retries \in 1..3
                  /\ after.retries \in {1, 2} => after.status = "pending"
                  /\ after.retries = 3 => after.status = "failed"
                  /\ after.error = "EAUTH"
                  /\ tickets' = tickets
                  /\ creds' = creds
        /\ (pc[c] = "find" /\ pc'[c] = "loop") =>
              \A n \in 1..Len(batch'[c]) :
                  jobs[batch'[c][n].id].status # "failed"]_vars

\* three consecutive attempts of a new job have failed with EAUTH
C19_Witness ==
    /\ width = 1
    /\ \E j \in JobIds :
          /\ jobs[j].status = "failed"
          /\ jobs[j].retries = 3
          /\ jobs[j].maxRetries = 3
          /\ jobs[j].error = "EAUTH"
          /\ tickets[jobs[j].ticketId] = "created"
    /\ \E c \in Cycles : pc[c] = "loop" /\ batch[c] = <<>>

\* the primary attempt of cycle c timed out on port 587 and its fallback
\* on port 465 succeeded
FellBack(c) ==
    sends[c] = << [port |-> 587, outcome |-> "ETIMEDOUT"],
                  [port |-> 465, outcome |-> "ok"] >>

\* C20 (scenario C): an invocation whose primary attempt timed out and
\* whose fallback succeeded changes the credentials in one step only, the
\* increment by one of the usage of its credential; with one cycle at a
\* time it ends with the job completed and that usage one above its value
\* at selection.
C20_ScenarioC ==
    [][\A c \in Cycles :
        /\ (FellBack(c)' /\ pc'[c] # pc[c] /\ creds' # creds) =>
              /\ pc[c] = "usage"
              /\ creds' = [creds EXCEPT
                    ![credential[c].id].daily_usage = @ + 1]
        /\ (width = 1 /\ FellBack(c) /\ EndsUnhindered(c)) =>
              /\ jobs'[job[c].id].status = "completed"
              /\ creds'[credential[c].id].daily_usage =
                    credential[c].daily_usage + 1]_vars

\* after a timeout on port 587 and a successful fallback the job is saved
\* as completed and the usage of the credential is one above its value at
\* selection
C20_Witness ==
    \E c \in Cycles :
        /\ width = 1
        /\ FellBack(c)
        /\ pc[c] = "sent"
        /\ jobs[job[c].id].status = "completed"
        /\ creds[credential[c].id].daily_usage = credential[c].daily_usage + 1

\* C21 (scenario D): with one cycle at a time, an invocation that finds no
\* credential with remaining quota has made no delivery attempt, and when
\* its retries after the increment are below maxRetries its catch block
\* leaves the job pending with error "No available email credentials" and
\* the retries of the claim, which stored them one above the stored value;
\* no credential and no ticket changes.
C21_ScenarioD ==
    [][\A c \in Cycles :
        /\ (width = 1 /\ pc[c] = "claim" /\ pc'[c] = "ticket") =>
              /\ jobs'[job[c].id].retries = jobs[job[c].id].retries + 1
              /\ job[c].doc.retries = jobs'[job[c].id].retries
        /\ (/\ width = 1
            /\ pc[c] = "catch" /\ pc'[c] = "loop"
            /\ caught[c] = "No available email credentials") =>
              LET after == jobs'[job[c].id]
              IN  /\ \A id \in CredIds : ~HasQuota(creds[id])
                  /\ sends[c] = <<>>
                  /\ after.retries = job[c].doc.retries
                  /\ after.error = "No available email credentials"
                  /\ after.retries < after.maxRetries
                        => after.status = "pending"
                  /\ creds' = creds
                  /\ tickets' = tickets]_vars

\* a job is pending again, below its ceiling, because no credential had
\* quota left
C21_Witness ==
    /\ width = 1
    /\ \A id \in CredIds : ~HasQuota(creds[id])
    /\ \E j \in JobIds :
          /\ jobs[j].status = "pending"
          /\ jobs[j].error = "No available email credentials"
          /\ jobs[j].retries < jobs[j].maxRetries

\* transporter.close() has run when the call of sendEmail is over: it is
\* the statement after await transporter.sendMail, reached only when
\* verify and sendMail resolved
TransporterClosed(call) == call.outcome = "ok"

\* C22: after every call of sendEmail the transporter it created is closed.
C22_TransportReleased ==
    \A c \in Cycles :
        \A n \in 1..Len(sends[c]) : TransporterClosed(sends[c][n])

\* C23: no step lowers the daily_usage of a credential; a step that changes
\* the credentials is the $inc of an invocation whose last call of
\* sendEmail succeeded, and it raises the stored usage of that
\* invocation's credential by one and changes nothing else; that $inc
\* always raises the stored value.
C23_UsageMonotone ==
    [][/\ \A id \in CredIds : creds'[id].daily_usage >= creds[id].daily_usage
       /\ creds' # creds =>
            \E c \in Cycles :
                /\ pc[c] = "usage" /\ pc'[c] = "complete"
                /\ emailInfo[c] # 0
                /\ sends[c][Len(sends[c])].outcome = "ok"
                /\ creds' = [creds EXCEPT
                      ![credential[c].id].daily_usage = @ + 1]
       /\ \A c \in Cycles :
            pc[c] = "usage" /\ pc'[c] = "complete" =>
                creds'[credential[c].id].daily_usage =
                    creds[credential[c].id].daily_usage + 1]_vars

\* two overlapping invocations selected the same credential with the same
\* usage and both have counted their send
C23_Witness ==
    \E c, d \in Cycles :
        /\ c # d
        /\ pc[c] = "complete" /\ pc[d] = "complete"
        /\ credential[c] = credential[d]
        /\ creds[credential[c].id].daily_usage = credential[c].daily_usage + 2

\* the messages of the errors thrown before the delivery
PreDelivery ==
    {"Ticket ID not found in job data", "Ticket not found",
     "No available email credentials", "Attachment data missing in job"}

\* C28: an invocation that failed on a missing ticket, on the lack of a
\* credential or on a missing attachment has made no delivery attempt; its
\* catch block stores the message as error, pending while the retries are
\* below maxRetries and failed otherwise, and changes no credential and no
\* ticket.
C28_PreDeliveryRetried ==
    [][\A c \in Cycles :
        (pc[c] = "catch" /\ pc'[c] = "loop" /\ caught[c] \in PreDelivery) =>
            LET after == jobs'[job[c].id]
            IN  /\ sends[c] = <<>>
                /\ after.error = caught[c]
                /\ after.retries = job[c].doc.retries
                /\ after.retries < after.maxRetries => after.status = "pending"
                /\ after.retries >= after.maxRetries => after.status = "failed"
                /\ creds' = creds
                /\ tickets' = tickets]_vars

\* the first attempt of a job whose attachment is missing left it pending
C28_Witness ==
    \E j \in JobIds :
        /\ jobs[j].status = "pending"
        /\ jobs[j].error = "Attachment data missing in job"
        /\ jobs[j].retries = 1
        /\ jobs[j].retries < jobs[j].maxRetries

\* C29: an invocation starts with retries one above the value its job has
\* in the store, and when it returns, after one call of sendEmail, after
\* two or after none, the store holds the retries it started with: every
\* invocation raises the stored retries by exactly one.
C29_OneRetryPerInvocation ==
    [][\A c \in Cycles :
        /\ (pc[c] = "loop" /\ pc'[c] = "claim") =>
              job'[c].doc.retries = jobs[job'[c].id].retries + 1
        /\ (InJob(c) /\ pc'[c] = "loop") =>
              jobs'[job[c].id].retries = job[c].doc.retries]_vars

\* some cycle holds job j: it is the job of a running invocation, or it
\* waits in a batch
Held(j) ==
    \E c \in Cycles :
        \/ InJob(c) /\ job[c].id = j
        \/ j \in BatchIds(batch[c])

\* job j is stored as processing and no cycle holds it
Orphan(j) == jobs[j].status = "processing" /\ ~Held(j)

\* C24: a job stored as processing that no cycle holds is changed by no
\* step of the worker, and no step makes a cycle hold it: it stays as it is
\* through every later poll cycle, also after a restart.
C24_NoReconciliation ==
    [][\A j \in JobIds :
        Orphan(j) => jobs'[j] = jobs[j] /\ Orphan(j)']_vars

\* a job the worker claimed is left in processing (its instance exited, or
\* its failure could not be saved), and a later poll cycle has run its
\* query
C24_Witness ==
    /\ \E j \in JobIds : Orphan(j) /\ jobs[j].retries >= 1
    /\ \E c \in Cycles : pc[c] = "loop" /\ booted[inst[c]]

\* instance i has received a termination signal and has not exited yet
Signalled(i) == \E d \in Cycles : inst[d] = i /\ pc[d] = "closing"

\* C25: once an instance has received a termination signal, none of its
\* slots starts a poll cycle and none of its cycles calls processEmailJob
\* on a further job.
C25_GracefulShutdown ==
    [][\A c \in Cycles :
        Signalled(inst[c]) =>
            /\ ~(pc[c] = "idle" /\ pc'[c] = "find")
            /\ ~(pc[c] = "loop" /\ pc'[c] = "claim")]_vars

\* C26: the response to POST /trigger is sent when the cycle it ran is
\* over; it reports failure exactly when that cycle ended in the catch
\* block of pollJobs (the query was rejected, or an error left
\* processEmailJob) and success exactly when the loop ran to its end.
C26_TriggerReports ==
    [][\A c \in Cycles :
        (http.slot = c /\ http'.res # "none") =>
            /\ pc'[c] = "idle"
            /\ pc[c] \in {"find", "catch"} <=> http'.res = "failure"
            /\ pc[c] = "loop" <=> http'.res = "success"]_vars

\* a job that is not this worker's to take
Foreign(d) ==
    \/ d.job_type # "send_email"
    \/ d.status \in {"queued", "error", "completed", "failed"}

\* C30: no step adds or removes a job or a ticket; a query returns no job
\* that is of another type or queued, error, completed or failed; the loop
\* calls processEmailJob on the jobs of its batch only; and such a job,
\* unless a cycle holds it from an earlier query, is changed by no step.
C30_OwnWorkOnly ==
    [][/\ DOMAIN jobs' = DOMAIN jobs
       /\ DOMAIN tickets' = DOMAIN tickets
       /\ \A c \in Cycles :
            /\ (pc[c] = "find" /\ pc'[c] = "loop") =>
                  \A n \in 1..Len(batch'[c]) : ~Foreign(jobs[batch'[c][n].id])
            /\ (pc[c] = "loop" /\ pc'[c] = "claim") =>
                  job'[c].id = Head(batch[c]).id
       /\ \A j \in JobIds :
            /\ jobs'[j] # jobs[j] => \E c \in Cycles : InJob(c) /\ job[c].id = j
            /\ (Foreign(jobs[j]) /\ ~Held(j)) => jobs'[j] = jobs[j]]_vars

\* the send_email job was completed while the job of another type beside
\* it, pending as well, is as its producer left it
C30_Witness ==
    \E j, k \in JobIds :
        /\ jobs[j].status = "completed"
        /\ jobs[k].job_type = "generate_ticket"
        /\ jobs[k] = [NewJob(2, DEFAULT_MAX_RETRIES, 1, TRUE) EXCEPT
                        !.job_type = "generate_ticket"]

\* C27: every send_email job that is pending with retries below its
\* maxRetries eventually is completed or failed.
C27_EventuallyTerminal ==
    \A j \in 1..NumJobs :
        (/\ j \in JobIds
         /\ jobs[j].job_type = "send_email"
         /\ jobs[j].status = "pending"
         /\ jobs[j].retries < jobs[j].maxRetries)
            ~> (j \in JobIds /\ jobs[j].status \in Terminal)

\* the job data or the ticket has a value for the field
Has(v) == v # Undefined /\ v # Null /\ v # ""

\* the invocation of cycle c has built the message it delivers
Composed(c) == pc[c] \in {"send", "fallback", "usage"}

C32_QuotaInvariant ==
    \A id \in CredIds :
        creds[id].daily_limit.kind = "num" =>
            creds[id].daily_usage <= creds[id].daily_limit.val

\* the invocation of cycle c has saved its job as completed
SavedCompleted(c) ==
    /\ pc[c] \in {"sent", "catch"}
    /\ job[c].doc.status = "completed"
    /\ "status" \notin job[c].dirty

\* C33: an invocation that has saved its job as completed writes no other
\* status to it afterwards: when the save of the ticket is rejected, its
\* catch block leaves the job completed with its result.
C33_CompletedNotUndone ==
    [][\A c \in Cycles :
        SavedCompleted(c) =>
            /\ jobs'[job[c].id].status = jobs[job[c].id].status
            /\ jobs'[job[c].id].result = jobs[job[c].id].result]_vars

\* C34: with one poll cycle at a time, no step of an invocation whose
\* delivery succeeded stores its job as pending, and no delivery succeeds
\* for a job whose document already holds the result of a delivery.
C34_AtMostOneDelivery ==
    [][\A c \in Cycles :
        /\ (width = 1 /\ emailInfo[c] # 0) =>
              (jobs'[job[c].id].status = "pending"
                  => jobs[job[c].id].status = "pending")
        /\ (width = 1 /\ pc[c] \in {"send", "fallback"} /\ pc'[c] = "usage") =>
              ~job[c].doc.result.success]_vars

\* C35: every claim write raises the stored retries of its job by exactly
\* one (so the stored value is the initial value plus the number of claim
\* writes), and no step lowers the stored retries of a job.
C35_RetriesCountClaims ==
    [][/\ \A c \in Cycles :
            (pc[c] = "claim" /\ pc'[c] = "ticket") =>
                jobs'[job[c].id].retries = jobs[job[c].id].retries + 1
       /\ \A j \in JobIds : jobs'[j].retries >= jobs[j].retries]_vars

\* the last call of sendEmail of the invocation of cycle c returned
Delivered(c) ==
    /\ emailInfo[c] # 0
    /\ sends[c] # <<>>
    /\ sends[c][Len(sends[c])].outcome = "ok"

\* C37: a job stored as completed holds the result of a successful send;
\* the step that stores a job as completed is the save of an invocation
\* for that job whose send returned, and it stores the message id of that
\* send; the step that sets a ticket to sent is taken by an invocation
\* whose job refers to the ticket and whose send returned.
C37_CompletionImpliesDelivery ==
    [][/\ \A j \in JobIds :
            /\ jobs'[j].status = "completed" =>
                  /\ jobs'[j].result.success
                  /\ jobs'[j].result.messageId \in MsgIds
            /\ (jobs[j].status # "completed" /\ jobs'[j].status = "completed") =>
                  \E c \in Cycles :
                      /\ pc[c] = "complete"
                      /\ job[c].id = j
                      /\ Delivered(c)
                      /\ jobs'[j].result.messageId = emailInfo[c]
       /\ \A t \in TicketIds :
            (tickets[t] # "sent" /\ tickets'[t] = "sent") =>
                \E c \in Cycles :
                    /\ pc[c] = "sent"
                    /\ job[c].doc.ticketId = t
                    /\ Delivered(c)]_vars

\* the delivery of the first attempt of a job failed and that of its
\* second attempt succeeded: the job is completed with the message id and
\* its ticket is sent
C37_Witness ==
    \E j \in JobIds :
        /\ jobs[j].status = "completed"
        /\ jobs[j].retries = 2
        /\ jobs[j].result.messageId \in MsgIds
        /\ jobs[j].error \in SmtpErrors
        /\ jobs[j].maxRetries = DEFAULT_MAX_RETRIES
        /\ tickets[jobs[j].ticketId] = "sent"

\* job j is what a candidate query looks for
Wanted(j) == j \in JobIds /\ Matches(jobs[j])

\* an invocation has saved its claim of job j
Claimed(j) == \E c \in Cycles : pc[c] = "ticket" /\ job[c].id = j

\* C36: with more jobs than the batch cap, every job that a candidate
\* query looks for is eventually claimed, also when the jobs created
\* before it fail at every attempt: such a job stops being looked for only
\* in the step that claims it, and at all times it is later claimed or no
\* longer looked for.
C36_NoStarvation ==
    /\ [][\A j \in JobIds : (Wanted(j) /\ ~Wanted(j)') => Claimed(j)']_vars
    /\ \A j \in 1..NumPollJobs : []<>(~Wanted(j) \/ Claimed(j))

\* the job left out of the first batch is claimed after the five jobs
\* created before it have failed all their attempts
C36_Witness ==
    \E j \in JobIds :
        /\ j > BATCH_LIMIT
        /\ Claimed(j)
        /\ \A k \in 1..BATCH_LIMIT :
              jobs[k].status = "failed" /\ jobs[k].retries = RETRY_CEILING

====
